---- MODULE Spec2Model ----
(***************************************************************************)
(* Model of the Arena simulation core (src/Arena/environment/arena.py and  *)
(* entities.py, longinus.py).                                              *)
(*                                                                         *)
(* Objects live in a heap `ent' (id -> record); env.hittables is a         *)
(* sequence of ids, env.bullets a sequence of records.  Time is the value  *)
(* of pygame.time.get_ticks() in milliseconds.                             *)
(*                                                                         *)
(* Geometry (positions, velocities, hitbox rectangles) is not carried in   *)
(* the state.  Every geometric test of the code -- the swept collision of  *)
(* a Bullet or of a melee Enemy, the blast area of an Explosion, the       *)
(* distance tests of Enemy.achieve_goal / Enemy.reward_player, the arena   *)
(* bounds test -- is an input of the step, drawn from BOOLEAN (or from the *)
(* candidates the code would consider), restricted by what the code makes  *)
(* impossible: a Bullet never hits its owner or a hitbox-less Husk, a      *)
(* Spawner (max_speed 0) never moves, nothing leaves the arena in a step   *)
(* of length dt = 0.  One restriction is a choice of inputs and not a      *)
(* property of the code: the player is taken to cross the arena bounds     *)
(* only in a step in which it is accelerated (by its thrust or by a push); *)
(* a player drifting out on its remaining velocity is not explored.        *)
(* A raised Python exception stops the handler where it is raised and is   *)
(* recorded in `err'; the process does not continue after it.              *)
(***************************************************************************)
EXTENDS Integers, Sequences, FiniteSets, TLC

VARIABLES
    ent,                \* heap: id -> object record (agent and everything in hittables)
    hittables,          \* ArenaEnv.hittables: sequence of ids
    bullets,            \* ArenaEnv.bullets: sequence of Bullet / Explosion records
    teleporters,        \* ArenaEnv.teleporters: sequence of Teleporter records
    spawners,           \* ArenaEnv.spawners view: sequence of ids
    enemies,            \* ArenaEnv.enemies view: sequence of ids
    difficulty,         \* ArenaEnv.difficulty
    alive,              \* ArenaEnv.alive
    out_of_spawners,    \* ArenaEnv.out_of_spawners
    last_physic_frame,  \* ArenaEnv.last_physic_frame
    now,                \* pygame.time.get_ticks()
    nextId,             \* next fresh object identity
    fabs,               \* stand-alone Fabricator objects driven directly
    call,               \* the last handler that ran and what it returned
    err                 \* the exception that ended the run, "" if none

vars == <<ent, hittables, bullets, teleporters, spawners, enemies, difficulty,
          alive, out_of_spawners, last_physic_frame, now, nextId, fabs, call, err>>

----------------------------------------------------------------------------
(* Bounds of the model *)

MaxTime == 6000
MaxBullets == 2
MaxHittables == 4
KillHorizon == 3000
CallHorizon == 1000
EpisodeHorizon == 1250
LiveHorizon == 3000
BlastHorizon == 750
BlastHittables == 3
DecayHorizon == 3500
DecayRoom == 3000
MaxObstacles == 2
MaxOverheal == 40
MaxTurn == 30
MaxHealthGrowth == 30

(* Inputs *)
ClockSteps == {250, 2500}
LiveSteps == {250, 1000}
BlastSteps == {125}
DecaySteps == {5, 1000}
RewardSteps == {250}
NestSteps == {500}
WatchSteps == {1250, 2500}
DriftSteps == {999}
NestDifficulties == {3, 15}
NestIterations == {0}
RewardTypes == {"RAMMER", "EXPLOSIVE_RAMMER"}
RewardDifficulties == {1}
InitDifficulties == {0}
RandOffsets == {0, 1000}
DamageAmounts == {50, 500}
LethalDamage == 500
CallDifficulties == {0}
CallTypes == {"RAMMER", "EXPLOSIVE_RAMMER", "DIFFICULTY_LONGINUS"}

\* a control style the program does not define
UnknownStyle == 2

\* heal: the overheal amounts and the max_health values it is compared at
HealAmounts == 1..MaxOverheal
HealMaxHealths == 100..(100 + MaxHealthGrowth)

\* rect_sweep: the moving rectangle, its displacements and the obstacles
SweepRect == [left |-> 0, top |-> 0, width |-> 2, height |-> 2]
SweepVels == {-2, 0, 2, 4} \X {0, 2}
SweepBoxes == {[left |-> l, top |-> t, width |-> 2, height |-> 2] :
                  l \in {-3, 1, 3, 4}, t \in {0, 1, 3}}
SweepObstacles ==
    {[hitbox |-> b, has_hitbox |-> TRUE, excepted |-> x] : b \in SweepBoxes, x \in BOOLEAN}
      \cup {[hitbox |-> SweepRect, has_hitbox |-> FALSE, excepted |-> FALSE]}

----------------------------------------------------------------------------
(* Constants of the program *)

AGENT == 0
NoOwner == -1
NoIteration == -1
NegInf == -1000000
Inf == 1000000

ARENA_WIDTH == 800
ARENA_HEIGHT == 800

\* ArenaEnv.start, the position the agent is constructed at
START == <<ARENA_WIDTH \div 2, ARENA_HEIGHT \div 2>>

\* any other position: where an object is once it has been placed at random
\* or has moved is not carried
Somewhere == <<>>

PLAYER_I_TIME == 600
ENEMY_I_TIME == 100
HUSK_I_TIME == 0
HUSK_HEALTH == 200
PLAYER_HEALTH == 100
PLAYER_POWER == 10
EXPLOSION_LIFE == 500
SPAWNER_HITBOX_SIZE == 40
ENEMY_HITBOX_SIZE == 10
SPAWNCEPTION_MAX_ITERATION == 0
FABRICATOR_COOLDOWN == 5000
FABRICATOR_LAST == -999
TELEPORTER_COOLDOWN == 1000

SPAWN_SPAWNER == TRUE
SPAWN_ENEMY == FALSE

EnemyTypes == <<"RAMMER", "TANKIER_RAMMER", "EXPLOSIVE_RAMMER", "GOTTAGOFAST",
                "PEW_PEW", "BIG_PEW_PEW", "SPAWNCEPTION", "DIFFICULTY_LONGINUS">>

EnemyTypeSet == {EnemyTypes[i] : i \in 1..Len(EnemyTypes)}

enemy_type_modifiers ==
    [t \in EnemyTypeSet |->
       CASE t = "RAMMER"              -> [health |-> 100, damage |-> 100, speed |-> 100, size |-> 100, cooldown |-> 0,    reward |-> 100]
         [] t = "TANKIER_RAMMER"      -> [health |-> 150, damage |-> 100, speed |-> 80,  size |-> 250, cooldown |-> 0,    reward |-> 150]
         [] t = "EXPLOSIVE_RAMMER"    -> [health |-> 50,  damage |-> 200, speed |-> 100, size |-> 150, cooldown |-> 0,    reward |-> 150]
         [] t = "GOTTAGOFAST"         -> [health |-> 20,  damage |-> 100, speed |-> 150, size |-> 100, cooldown |-> 0,    reward |-> 120]
         [] t = "PEW_PEW"             -> [health |-> 80,  damage |-> 100, speed |-> 90,  size |-> 100, cooldown |-> 100,  reward |-> 140]
         [] t = "BIG_PEW_PEW"         -> [health |-> 120, damage |-> 150, speed |-> 80,  size |-> 200, cooldown |-> 120,  reward |-> 180]
         [] t = "SPAWNCEPTION"        -> [health |-> 500, damage |-> 0,   speed |-> 10,  size |-> 500, cooldown |-> 1000, reward |-> 300]
         [] t = "DIFFICULTY_LONGINUS" -> [health |-> 7000, damage |-> Inf, speed |-> 100, size |-> 800, cooldown |-> 0,   reward |-> 1000000]]

----------------------------------------------------------------------------
(* Arithmetic helpers *)

Max(a, b) == IF a >= b THEN a ELSE b

\* Python int(round(n / d)) for n >= 0, d > 0: round half to even
RoundDiv(n, d) ==
    LET q == n \div d
        r == n % d
    IN  IF 2 * r < d THEN q
        ELSE IF 2 * r > d THEN q + 1
        ELSE IF q % 2 = 0 THEN q ELSE q + 1

\* int(math.cbrt(r)) for r >= 0
ICbrt(r) == CHOOSE k \in 0..(r + 1) : k * k * k <= r /\ (k + 1) * (k + 1) * (k + 1) > r

SeqRemove(s, x) ==
    IF \E i \in 1..Len(s) : s[i] = x
    THEN LET i == CHOOSE j \in 1..Len(s) : s[j] = x /\ \A k \in 1..(j - 1) : s[k] # x
         IN  SubSeq(s, 1, i - 1) \o SubSeq(s, i + 1, Len(s))
    ELSE s


FilterIds(s, P(_)) == SelectSeq(s, P)

----------------------------------------------------------------------------
(* The world as a value, so that handlers compose as in the code *)

NoFab == [spawn_cooldown |-> 0, last_spawn_time |-> 0]

World ==
    [ent |-> ent, hittables |-> hittables, bullets |-> bullets,
     teleporters |-> teleporters, spawners |-> spawners, enemies |-> enemies,
     difficulty |-> difficulty, alive |-> alive,
     out_of_spawners |-> out_of_spawners,
     last_physic_frame |-> last_physic_frame, now |-> now, nextId |-> nextId,
     fabs |-> fabs, err |-> err,
     ret |-> "None", fab |-> NoFab, left |-> {}, trace |-> FALSE, log |-> <<>>,
     drift |-> FALSE]

\* raise: the first exception ends the handler
Raise(w, e) == IF w.err = "" THEN [w EXCEPT !.err = e] ELSE w

get_ticks(w) == w.now

\* what a handler did on the way, kept for the calls that are watched
Event(what, id, health, flag) == [what |-> what, id |-> id, health |-> health, flag |-> flag]

Log(w, e) == IF w.trace THEN [w EXCEPT !.log = Append(@, e)] ELSE w

----------------------------------------------------------------------------
(* Hittable and its subclasses *)

Hittable_init(w, kind, type, health, hitbox, diff) ==
    LET rec == [kind |-> kind, type |-> type,
                health |-> health, max_health |-> health,
                invincible |-> FALSE, i_frames_start |-> -9999,
                hitbox |-> hitbox, difficulty |-> diff,
                spawn_cooldown |-> 0, last_spawn_time |-> 0,
                power |-> 0, iteration |-> 0, actual_max_iter |-> 0,
                next_iter_difficulty |-> 0, last_cooldownable_action |-> -999,
                accel |-> FALSE, position |-> Somewhere, angle |-> 0]
    IN  [w EXCEPT !.ent = (w.nextId :> rec) @@ w.ent,
                  !.hittables = Append(w.hittables, w.nextId),
                  !.nextId = w.nextId + 1]

i_time(e) ==
    CASE e.kind = "Agent" -> PLAYER_I_TIME
      [] e.kind = "Husk"  -> HUSK_I_TIME
      [] OTHER            -> ENEMY_I_TIME

\* a variant without the invincibility guard of line 229
take_damage_NoGuard(w, id, amount) ==
    LET e == w.ent[id]
        h == IF e.health = NegInf \/ e.health - amount < 0 THEN 0 ELSE e.health - amount
    IN  [w EXCEPT !.ent[id].health = h,
                  !.ent[id].invincible = TRUE,
                  !.ent[id].i_frames_start = get_ticks(w)]

take_damage(w, id, amount) ==
    LET e == w.ent[id]
        h == IF e.health = NegInf \/ e.health - amount < 0 THEN 0 ELSE e.health - amount
    IN  IF e.invincible THEN w
        ELSE [w EXCEPT !.ent[id].health = h,
                       !.ent[id].invincible = TRUE,
                       !.ent[id].i_frames_start = get_ticks(w)]

\* Hittable.pushed changes the velocity only; a push makes the target move
pushed(w, id) == [w EXCEPT !.ent[id].accel = TRUE]

out_of_health(e) == e.health <= 0 /\ e.health > NegInf

Husk_init(w, src) ==
    Hittable_init(w, "Husk", IF src.kind \in {"Enemy", "Longinus"} THEN src.type ELSE "None",
                  HUSK_HEALTH, FALSE, 0)

destroy(w, id) ==
    LET e  == w.ent[id]
        w1 == [w EXCEPT !.hittables = SeqRemove(w.hittables, id)]
    IN  IF e.kind # "Agent" /\ e.kind # "Husk" THEN Husk_init(w1, e) ELSE w1

\* The two quotients of heal are computed in double precision.  For these
\* <<overheal, max_health>> (overheal up to 200, max_health 100 to 300) and
\* <<overheal, power>> (power 10 to 40) the exact quotient is an integer k and
\* the double result lies just below it, so that int() gives k - 1.
MaxHealthShort ==
    {
     <<147, 105>>, <<189, 105>>, <<107, 107>>, <<162, 108>>, <<33, 110>>, <<66, 110>>,
     <<121, 110>>, <<132, 110>>, <<165, 110>>, <<187, 110>>, <<111, 111>>, <<56, 112>>,
     <<112, 112>>, <<189, 126>>, <<91, 130>>, <<169, 130>>, <<182, 130>>, <<66, 132>>,
     <<132, 132>>, <<81, 135>>, <<162, 135>>, <<189, 135>>, <<68, 136>>, <<136, 136>>,
     <<137, 137>>, <<48, 160>>, <<96, 160>>, <<112, 160>>, <<192, 160>>, <<81, 162>>,
     <<162, 162>>, <<179, 179>>, <<92, 184>>, <<184, 184>>, <<111, 185>>, <<187, 187>>,
     <<147, 210>>, <<189, 210>>, <<107, 214>>, <<66, 220>>, <<132, 220>>, <<111, 222>>,
     <<112, 224>>, <<147, 245>>, <<182, 260>>, <<132, 264>>, <<81, 270>>, <<162, 270>>,
     <<189, 270>>, <<136, 272>>, <<137, 274>>, <<177, 295>>}

PowerShort ==
    {
     <<66, 11>>, <<132, 11>>, <<182, 13>>, <<96, 16>>, <<192, 16>>, <<132, 22>>,
     <<162, 27>>, <<192, 32>>}

\* a variant whose gain grows with max_health
MaxHealthGain_Proportional(overheal, max_health) == (overheal * max_health) \div 1000

\* line 376: int(overheal / 10 / (self.max_health / 100))
MaxHealthGain(overheal, max_health) ==
    ((10 * overheal) \div max_health)
      - (IF <<overheal, max_health>> \in MaxHealthShort THEN 1 ELSE 0)

\* line 378: int(overheal / 20 / (self.power / 10))
PowerGain(overheal, power) ==
    (overheal \div (2 * power)) - (IF <<overheal, power>> \in PowerShort THEN 1 ELSE 0)

heal(w, amount) ==
    LET a  == w.ent[AGENT]
        h  == a.health + amount
        overheal == h - a.max_health
        mh == a.max_health + MaxHealthGain(overheal, a.max_health)
    IN  IF h > a.max_health
        THEN [w EXCEPT !.ent[AGENT].max_health = mh,
                       !.ent[AGENT].health = mh,
                       !.ent[AGENT].power = a.power + PowerGain(overheal, a.power)]
        ELSE [w EXCEPT !.ent[AGENT].health = h]

Player_init(w) ==
    LET w1 == Hittable_init(w, "Agent", "None", PLAYER_HEALTH, TRUE, 0)
    IN  [w1 EXCEPT !.ent[w.nextId].power = PLAYER_POWER,
                   !.ent[w.nextId].position = START]

EnemySize(type) == RoundDiv(ENEMY_HITBOX_SIZE * enemy_type_modifiers[type].size, 100)
EnemyDamage(diff, type) == RoundDiv((1 + diff) * enemy_type_modifiers[type].damage, 100)
EnemyReward(diff, type) == RoundDiv(diff * enemy_type_modifiers[type].reward, 100)
EnemyCooldown(diff, type) ==
    RoundDiv(Max(500, 5000 - diff * 100) * enemy_type_modifiers[type].cooldown, 100)

\* Enemy.__init__(position, angle, difficulty, type, target, iteration, env)
Enemy_init(w, angle, diff, type, target, iteration, env) ==
    IF type \notin DOMAIN enemy_type_modifiers THEN Raise(w, "KeyError")
    ELSE IF enemy_type_modifiers[type].damage = Inf THEN Raise(w, "OverflowError")
    ELSE
      LET id == w.nextId
          health == RoundDiv((5 + diff * 5) * enemy_type_modifiers[type].health, 100)
          w1 == Hittable_init(w, "Enemy", type, health, TRUE, diff)
          cd == EnemyCooldown(diff, type)
          it == IF iteration # NoIteration THEN iteration ELSE 0
          ami == IF iteration # NoIteration
                 THEN RoundDiv(10 * SPAWNCEPTION_MAX_ITERATION + diff, 10) ELSE 0
          nid == IF iteration # NoIteration
                 THEN Max(0, diff - ((diff * it) \div ami)) ELSE 0
      IN  IF type # "SPAWNCEPTION" THEN w1
          ELSE IF iteration # NoIteration /\ ami = 0 THEN Raise(w1, "ZeroDivisionError")
          ELSE [w1 EXCEPT !.ent[id].iteration = it,
                          !.ent[id].actual_max_iter = ami,
                          !.ent[id].next_iter_difficulty = nid,
                          !.ent[id].spawn_cooldown = cd,
                          !.ent[id].last_spawn_time = get_ticks(w) + 500 - cd]

\* Longinus.__init__ hands its arguments to Enemy.__init__ by position
Longinus_init(w, diff, type, target, iteration, env) ==
    Enemy_init(w, diff, type, target, iteration, env, "None")

SpawnTypes(diff) == {EnemyTypes[(ICbrt(r) % Len(EnemyTypes)) + 1] : r \in 0..(diff * diff)}

Spawner_init(w, diff, target) ==
    LET id == w.nextId
        w1 == Hittable_init(w, "Spawner", "None", 100 + diff * 10, TRUE, diff)
        spawn_timer == Max(500, 5000 - diff * 200)
    IN  {[w1 EXCEPT !.ent[id].type = t,
                    !.ent[id].spawn_cooldown = spawn_timer,
                    !.ent[id].last_spawn_time = get_ticks(w) + off]
           : t \in SpawnTypes(diff), off \in {o \in RandOffsets : o <= spawn_timer}}


----------------------------------------------------------------------------
(* Fabricator *)

SetRet(w, r) == [w EXCEPT !.ret = IF w.err = "" THEN r ELSE "raised"]

IsBoss(e) == e.kind \in {"Enemy", "Longinus"} /\ e.type = "DIFFICULTY_LONGINUS"

\* lines 644-652: the scan for a Longinus, then the constructor
SpawnLonginus_NoScan(w, diff, target) ==
    LET w1 == Hittable_init(w, "Longinus", "DIFFICULTY_LONGINUS", 7000, TRUE, diff)
    IN  SetRet(w1, "True")

SpawnLonginus(w, diff, target) ==
    LET longinus_present == \E i \in 1..Len(w.hittables) :
                                w.ent[w.hittables[i]].kind = "Longinus"
        w1 == IF ~longinus_present
              THEN LET x == Longinus_init(w, diff, "DIFFICULTY_LONGINUS", target,
                                          NoIteration, "env")
                   IN  IF x.err = "" /\ x.nextId > w.nextId
                       THEN [x EXCEPT !.ent[w.nextId].kind = "Longinus"] ELSE x
              ELSE w
    IN  SetRet(w1, "True")

\* a variant that stamps last_spawn_time before the cooldown test
try_spawn_with_cooldown_StampFirst(w, fab, spawn_what, diff, target, type, iteration) ==
    LET current_time == get_ticks(w)
        f2 == [fab EXCEPT !.last_spawn_time = current_time]
        w1 == [w EXCEPT !.fab = f2]
    IN  IF current_time - fab.last_spawn_time < fab.spawn_cooldown
        THEN {SetRet(w1, "False")}
        ELSE IF spawn_what = SPAWN_SPAWNER
        THEN {SetRet(x, "False") : x \in Spawner_init(w1, diff, target)}
        ELSE IF type # "DIFFICULTY_LONGINUS"
        THEN {SetRet(Enemy_init(w1, 0, diff, type, target, iteration, "env"), "False")}
        ELSE {SpawnLonginus(w1, diff, target)}

try_spawn_with_cooldown(w, fab, spawn_what, diff, target, type, iteration) ==
    LET current_time == get_ticks(w)
        f2 == [fab EXCEPT !.last_spawn_time = current_time]
        w1 == [w EXCEPT !.fab = f2]
    IN  IF current_time - fab.last_spawn_time < fab.spawn_cooldown
        THEN {SetRet([w EXCEPT !.fab = fab], "False")}
        ELSE IF spawn_what = SPAWN_SPAWNER
        THEN {SetRet(x, "False") : x \in Spawner_init(w1, diff, target)}
        ELSE IF type # "DIFFICULTY_LONGINUS"
        THEN {SetRet(Enemy_init(w1, 0, diff, type, target, iteration, "env"), "False")}
        ELSE {SpawnLonginus(w1, diff, target)}

Fab(e) == [spawn_cooldown |-> e.spawn_cooldown, last_spawn_time |-> e.last_spawn_time]

\* the Fabricator an object owns (Spawner.source, Enemy.fabricator) is written back
OwnFab(w, id) == [w EXCEPT !.ent[id].last_spawn_time = w.fab.last_spawn_time]

----------------------------------------------------------------------------
(* rect_sweep: swept collision of a moving rectangle.  Rectangles are        *)
(* pygame.Rect values with integer fields; a time is a fraction <<n, d>>     *)
(* with d > 0, or <<-1, 0>> and <<1, 0>> for -math.inf and math.inf.         *)

Rect(left, top, width, height) ==
    [left |-> left, top |-> top, width |-> width, height |-> height]

right(r) == r.left + r.width
bottom(r) == r.top + r.height

\* pygame.Rect.colliderect: the interiors intersect
colliderect(a, b) ==
    /\ a.left < right(b) /\ b.left < right(a)
    /\ a.top < bottom(b) /\ b.top < bottom(a)

MinusInf == <<-1, 0>>
PlusInf == <<1, 0>>

\* n / d for d # 0
Frac(n, d) == IF d < 0 THEN <<-n, -d>> ELSE <<n, d>>

Less(a, b) ==
    IF a[2] = 0 /\ b[2] = 0 THEN a[1] < b[1] ELSE a[1] * b[2] < b[1] * a[2]

FMax(a, b) == IF Less(a, b) THEN b ELSE a
FMin(a, b) == IF Less(b, a) THEN b ELSE a

\* lines 58-72: entry and exit distances on one axis; lo and hi are the
\* left/top and right/bottom of the moving rectangle, blo and bhi of the box
AxisEntryDist(v, lo, hi, blo, bhi) == IF v > 0 THEN blo - hi ELSE bhi - lo
AxisExitDist(v, lo, hi, blo, bhi) == IF v > 0 THEN bhi - lo ELSE blo - hi

\* lines 75-90: the axis is skipped (continue) when it does not move and
\* does not overlap
AxisMisses(v, lo, hi, blo, bhi) == v = 0 /\ (hi <= blo \/ lo >= bhi)

AxisEntry(v, lo, hi, blo, bhi) ==
    IF v = 0 THEN MinusInf ELSE Frac(AxisEntryDist(v, lo, hi, blo, bhi), v)

AxisExit(v, lo, hi, blo, bhi) ==
    IF v = 0 THEN PlusInf ELSE Frac(AxisExitDist(v, lo, hi, blo, bhi), v)

\* lines 93-95
t_entry(rect, vel, box) ==
    FMax(AxisEntry(vel[1], rect.left, right(rect), box.left, right(box)),
         AxisEntry(vel[2], rect.top, bottom(rect), box.top, bottom(box)))

t_exit(rect, vel, box) ==
    FMin(AxisExit(vel[1], rect.left, right(rect), box.left, right(box)),
         AxisExit(vel[2], rect.top, bottom(rect), box.top, bottom(box)))

\* the `continue' statements of lines 76, 84 and 98-99
NoCollision(rect, vel, box) ==
    \/ AxisMisses(vel[1], rect.left, right(rect), box.left, right(box))
    \/ AxisMisses(vel[2], rect.top, bottom(rect), box.top, bottom(box))
    \/ Less(t_exit(rect, vel, box), t_entry(rect, vel, box))
    \/ Less(t_entry(rect, vel, box), <<0, 1>>)
    \/ Less(<<1, 1>>, t_entry(rect, vel, box))

\* lines 53-55
SweepOverlap(rect, box, st, idx) ==
    IF colliderect(rect, box) THEN [earliest_t |-> <<-1, 1>>, hit_object |-> idx] ELSE st

\* lines 101-103
SweepEntry(rect, vel, box, st, idx) ==
    IF ~NoCollision(rect, vel, box) /\ Less(t_entry(rect, vel, box), st.earliest_t)
    THEN [earliest_t |-> t_entry(rect, vel, box), hit_object |-> idx] ELSE st

\* a variant whose overlap test leaves earliest_t as it is
SweepStep_NoSentinel(rect, vel, box, st, idx) ==
    SweepEntry(rect, vel, box,
               IF colliderect(rect, box) THEN [st EXCEPT !.hit_object = idx] ELSE st, idx)

\* one pass of the loop of lines 50-103
SweepStep(rect, vel, box, st, idx) ==
    SweepEntry(rect, vel, box, SweepOverlap(rect, box, st, idx), idx)

\* the filter of lines 47-48 without the test of the exclusion set
NotFriendly_Anyone(o) == o.has_hitbox

\* lines 47-48: obstacles not in exceptions that have a hitbox
NotFriendly(o) == ~o.excepted /\ o.has_hitbox

RECURSIVE SweepLoop(_, _, _, _, _)
SweepLoop(rect, vel, obstacles, k, st) ==
    IF k > Len(obstacles) THEN st.hit_object
    ELSE SweepLoop(rect, vel, obstacles, k + 1,
                   IF NotFriendly(obstacles[k])
                   THEN SweepStep(rect, vel, obstacles[k].hitbox, st, k) ELSE st)

\* the index in obstacles of the Hittable returned, 0 for None
rect_sweep(rect, vel, obstacles) ==
    SweepLoop(rect, vel, obstacles, 1, [earliest_t |-> <<1, 1>>, hit_object |-> 0])

----------------------------------------------------------------------------
(* Bullet, Explosion *)

Bullet_init(w, owner, damage) ==
    [w EXCEPT !.bullets = Append(w.bullets,
        [kind |-> "Bullet", owner |-> owner, damage |-> damage, start_time |-> 0,
         struck |-> {}])]

Explosion_init(w, damage) ==
    [w EXCEPT !.bullets = Append(w.bullets,
        [kind |-> "Explosion", owner |-> NoOwner, damage |-> damage,
         start_time |-> get_ticks(w), struck |-> {}])]

RemoveAt(s, i) == SubSeq(s, 1, i - 1) \o SubSeq(s, i + 1, Len(s))

\* Bullet.update of the bullet at index i of env.bullets; the swept collision
\* picks one of the hittables that have a hitbox and are not the owner, or none
Bullet_update(w, i, dt) ==
    LET b == w.bullets[i]
        cands == {w.hittables[k] : k \in {j \in 1..Len(w.hittables) :
                       w.ent[w.hittables[j]].hitbox /\ w.hittables[j] # b.owner}}
        gone == [w EXCEPT !.bullets = RemoveAt(w.bullets, i)]
    IN  {take_damage(gone, t, b.damage) : t \in cands}
        \cup {w}
        \cup (IF dt > 0 THEN {gone} ELSE {})

\* lines 187-202: every target is pushed, then damaged; `struck' holds the
\* targets earlier updates of the same Explosion have pushed
RECURSIVE HitAll(_, _, _, _)
HitAll(w, S, damage, struck) ==
    IF S = {} THEN w
    ELSE LET t == CHOOSE x \in S : TRUE
         IN  HitAll(take_damage(pushed(Log(w, Event("blast", t, w.ent[t].health,
                                                   t \in struck)), t), t, damage),
                    S \ {t}, damage, struck)

\* the history of a watched Explosion: the targets it has pushed so far.  The
\* code's own list, already_hit, stays empty
Strike(w, i, S) ==
    IF w.trace THEN [w EXCEPT !.bullets[i].struck = @ \cup S] ELSE w

\* Explosion.update: already_hit is never added to, so every hittable with a
\* hitbox inside the blast area is a target on every update
Explosion_update(w, i) ==
    LET b == w.bullets[i]
        current_time == get_ticks(w)
        cands == {w.hittables[k] : k \in {j \in 1..Len(w.hittables) :
                       w.ent[w.hittables[j]].hitbox}}
    IN  IF current_time - b.start_time >= EXPLOSION_LIFE
        THEN {[w EXCEPT !.bullets = RemoveAt(w.bullets, i)]}
        ELSE {Strike(HitAll(w, S, b.damage, b.struck), i, S) : S \in SUBSET cands}

\* for b in self.bullets[:]: b.update(dt) -- k runs over the copy, `removed'
\* counts the bullets of the copy that have removed themselves
RECURSIVE BulletsLoop(_, _, _, _, _)
BulletsLoop(w, n, k, removed, dt) ==
    IF k > n THEN {w}
    ELSE LET i == k - removed
             outs == IF w.bullets[i].kind = "Explosion"
                     THEN Explosion_update(w, i) ELSE Bullet_update(w, i, dt)
         IN  UNION {BulletsLoop(x, n, k + 1,
                                removed + (IF Len(x.bullets) < Len(w.bullets) THEN 1 ELSE 0),
                                dt) : x \in outs}


----------------------------------------------------------------------------
(* Death effects *)

TargetAgent == "agent"

\* the 1.5 and 2 multipliers of reward_player as a fraction <<num, den>>
TierMul(type) ==
    IF type \in {"SPAWNCEPTION", "DIFFICULTY_LONGINUS"} THEN <<3, 1>>
    ELSE IF type \in {"PEW_PEW", "BIG_PEW_PEW"} THEN <<3, 2>>
    ELSE <<1, 1>>

Enemy_heal_amount(w, e) ==
    LET p    == w.ent[AGENT].power
        minp == IF p < e.max_health THEN p ELSE e.max_health
        m    == TierMul(e.type)
        num  == EnemyReward(e.difficulty, e.type) * minp
                  * (400 + e.difficulty * 10) * enemy_type_modifiers[e.type].speed
                  * 10 * m[1]
        den  == 400 * 100 * EnemySize(e.type) * m[2]
    IN  RoundDiv(num, den)

\* Enemy.reward_player without the distance test of line 553
Enemy_reward_player_Anywhere(w, id, near) ==
    LET e == w.ent[id]
    IN  IF ~(e.health > NegInf) THEN w
        ELSE heal(Log(w, Event("reward", id, e.health, near)), Enemy_heal_amount(w, e))

\* Enemy.reward_player; `near' is the test distance <= hitbox.width * 10
Enemy_reward_player(w, id, near) ==
    LET e == w.ent[id]
    IN  IF ~(e.health > NegInf) THEN w
        ELSE IF near
        THEN heal(Log(w, Event("reward", id, e.health, near)), Enemy_heal_amount(w, e))
        ELSE w

Spawner_heal_amount(w, e) ==
    LET p    == w.ent[AGENT].power
        minp == IF p < e.max_health THEN p ELSE e.max_health
        m    == TierMul(e.type)
    IN  RoundDiv((e.difficulty + 1) * 2 * minp * 10 * m[1], SPAWNER_HITBOX_SIZE * m[2])

Spawner_reward_player(w, id) ==
    heal(Log(w, Event("spawner reward", id, w.ent[id].health, TRUE)),
         Spawner_heal_amount(w, w.ent[id]))

reward_player(w, id, near) ==
    IF w.ent[id].kind = "Spawner" THEN Spawner_reward_player(w, id)
    ELSE Enemy_reward_player(w, id, near)

explode(w, id) ==
    LET w1 == [w EXCEPT !.ent[id].health = NegInf]
        w2 == destroy(w1, id)
    IN  Explosion_init(w2, EnemyDamage(w.ent[id].difficulty, w.ent[id].type))

IsExplosive(e) == e.kind \in {"Enemy", "Longinus"} /\ e.type = "EXPLOSIVE_RAMMER"

----------------------------------------------------------------------------
(* Hittable.update; g.near and g.oob are the geometric inputs of the step *)

MayLeave(e, dt) ==
    /\ e.kind \notin {"Husk", "Spawner"}
    /\ dt > 0
    /\ e.kind = "Agent" => e.accel

\* lines 241-246: the death effects of an object whose health has run out
ExplodeIfExplosive(w, id) ==
    IF IsExplosive(w.ent[id]) THEN explode(w, id) ELSE w

RewardIfEnemy(w, id, near) ==
    IF w.ent[id].kind \in {"Spawner", "Enemy", "Longinus"}
    THEN reward_player(w, id, near) ELSE w

DeathEffects(w, id, near) ==
    IF out_of_health(w.ent[id])
    THEN destroy(ExplodeIfExplosive(RewardIfEnemy(w, id, near), id), id)
    ELSE w

\* lines 247-250: invincibility frames
ClearInvincible(w, id) ==
    IF w.ent[id].invincible /\ get_ticks(w) - w.ent[id].i_frames_start > i_time(w.ent[id])
    THEN [w EXCEPT !.ent[id].invincible = FALSE] ELSE w

\* lines 251-260: an accelerated object moves
Move(w, id) ==
    IF w.ent[id].accel THEN [w EXCEPT !.ent[id].position = Somewhere] ELSE w

\* lines 273-274: a Player that has left the arena is left with health 0
ZeroIfPlayer(w, id) ==
    IF w.ent[id].kind = "Agent" THEN [w EXCEPT !.ent[id].health = 0] ELSE w

\* the objects the bounds test of lines 264-269 has found outside in this call
Outside(w, id) == [w EXCEPT !.left = @ \cup {id}]

\* lines 263-274: out of bounds
LeaveArena(w, id, oob, dt) ==
    IF oob /\ MayLeave(w.ent[id], dt)
    THEN ZeroIfPlayer(destroy(ExplodeIfExplosive(Outside(w, id), id), id), id)
    ELSE w

\* line 287: the acceleration is reset for the next frame
ResetAccel(w, id) == [w EXCEPT !.ent[id].accel = FALSE]

Hittable_update(w, id, g, dt) ==
    ResetAccel(LeaveArena(Move(ClearInvincible(DeathEffects(w, id, g.near), id), id),
                          id, g.oob, dt), id)

\* lines 318-320: the decay follows Hittable.update and is not clamped
Husk_decay(w, id, dt) ==
    [w EXCEPT !.ent[id].health = w.ent[id].health - ((100 * dt) \div 1000)]

Husk_update(w, id, dt) ==
    Husk_decay(Hittable_update(w, id, [near |-> FALSE, oob |-> FALSE], dt), id, dt)

Player_update(w, id, oob, dt) ==
    Hittable_update(w, id, [near |-> FALSE, oob |-> oob], dt)

\* Enemy.collide: the swept test against the target alone
collide(w, id, hit) ==
    LET e == w.ent[id]
        d == EnemyDamage(e.difficulty, e.type)
    IN  IF hit /\ w.ent[AGENT].hitbox
        THEN pushed(take_damage(take_damage(w, id, d), AGENT, d), AGENT)
        ELSE w

Enemy_shoot(w, id) ==
    Bullet_init(w, id, EnemyDamage(w.ent[id].difficulty, w.ent[id].type))

\* Enemy.achieve_goal; g.close is distance <= hitbox.width * 4, g.inrange is
\* distance <= aim_range
\* lines 482-497: the explosive rammer blows up next to its target, the
\* shooters shoot when in range and off cooldown
GoalAttack(w, id, g) ==
    IF w.ent[id].type = "EXPLOSIVE_RAMMER" /\ g.close THEN explode(w, id)
    ELSE IF w.ent[id].type \in {"PEW_PEW", "BIG_PEW_PEW"} /\ g.inrange
            /\ get_ticks(w) - w.ent[id].last_cooldownable_action
                 >= EnemyCooldown(w.ent[id].difficulty, w.ent[id].type)
    THEN [Enemy_shoot(w, id) EXCEPT !.ent[id].last_cooldownable_action = get_ticks(w)]
    ELSE w

\* lines 498-510: SPAWNCEPTION spawns through its own Fabricator
GoalSpawn(w, id) ==
    IF w.ent[id].type = "SPAWNCEPTION"
    THEN {OwnFab(x, id) :
            x \in IF w.ent[id].iteration < w.ent[id].actual_max_iter
                  THEN try_spawn_with_cooldown(w, Fab(w.ent[id]), SPAWN_ENEMY,
                           w.ent[id].next_iter_difficulty, TargetAgent,
                           "SPAWNCEPTION", w.ent[id].iteration + 1)
                  ELSE try_spawn_with_cooldown(w, Fab(w.ent[id]), SPAWN_ENEMY, 0,
                           TargetAgent, "RAMMER", NoIteration)}
    ELSE {w}

achieve_goal(w, id, g) == GoalSpawn(GoalAttack(w, id, g), id)

\* the geometric inputs that can make a difference for this enemy now
EnemyGeometry(w, id, dt) ==
    LET e == w.ent[id]
    IN  [hit     : BOOLEAN,
         close   : IF e.type = "EXPLOSIVE_RAMMER" THEN BOOLEAN ELSE {FALSE},
         inrange : IF e.type \in {"PEW_PEW", "BIG_PEW_PEW"} THEN BOOLEAN ELSE {FALSE},
         near    : IF EnemyReward(e.difficulty, e.type) > 0 THEN BOOLEAN ELSE {FALSE},
         oob     : IF dt > 0 THEN BOOLEAN ELSE {FALSE}]

Enemy_update(w, id, dt) ==
    UNION {
      {IF x.err = "" THEN Hittable_update(x, id, g, dt) ELSE x :
           x \in achieve_goal(collide(w, id, g.hit), id, g)}
      : g \in EnemyGeometry(w, id, dt)}

\* lines 606-607: the Spawner's own Fabricator, and destroy() on a True result
Spawner_spawn(w, id) ==
    {IF x.err = "" /\ x.ret = "True" THEN destroy(OwnFab(x, id), id) ELSE OwnFab(x, id) :
       x \in {IF y.nextId > w.nextId
              THEN Log(y, Event("spawn", id, w.ent[id].health,
                                \E k \in 1..Len(w.hittables) : w.hittables[k] = id))
              ELSE y
              : y \in try_spawn_with_cooldown(w, Fab(w.ent[id]), SPAWN_ENEMY,
                                              w.ent[id].difficulty, TargetAgent,
                                              w.ent[id].type, NoIteration)}}

\* lines 603-604
Spawner_reward_if_dead(w, id) ==
    IF out_of_health(w.ent[id]) THEN Spawner_reward_player(w, id) ELSE w

Spawner_update(w, id, dt) ==
    Spawner_spawn(Hittable_update(Spawner_reward_if_dead(w, id), id,
                                  [near |-> FALSE, oob |-> FALSE], dt), id)

\* for h in self.hittables[:]: h.update(dt)
RECURSIVE HittablesLoop(_, _, _, _)
HittablesLoop(w, copy, k, dt) ==
    IF k > Len(copy) \/ w.err # "" THEN {w}
    ELSE LET id == copy[k]
             kind == w.ent[id].kind
             outs == CASE kind = "Agent"   -> {Player_update(w, id, o, dt) : o \in BOOLEAN}
                       [] kind = "Husk"    -> {Husk_update(w, id, dt)}
                       [] kind = "Spawner" -> Spawner_update(w, id, dt)
                       [] OTHER            -> Enemy_update(w, id, dt)
         IN  UNION {HittablesLoop(x, copy, k + 1, dt) : x \in outs}


----------------------------------------------------------------------------
(* ArenaEnv *)

Teleporter_init(w, spawn_cooldown, last_spawn_time) ==
    [spawn_cooldown |-> spawn_cooldown, last_spawn_time |-> last_spawn_time,
     started |-> get_ticks(w), made |-> 0]

\* a variant that plans one position more
select_spawners_positions_OneMore(w) == w.difficulty + 2

\* one position per planned Spawner: amount = self.difficulty + 1
select_spawners_positions(w) == w.difficulty + 1

\* the history of a watched Teleporter: the Spawners it has made so far
Made(w, x, k) ==
    IF x.trace /\ x.nextId > w.nextId
    THEN [x EXCEPT !.teleporters[k].made = @ + 1] ELSE x

\* pygame.time.get_ticks() reads the running clock: between two Teleporters'
\* calls of one tick it may have moved on by a millisecond
Drifted(w, k) ==
    IF w.drift /\ k < Len(w.teleporters) THEN {w, [w EXCEPT !.now = @ + 1]} ELSE {w}

RECURSIVE TeleportersLoop(_, _)
TeleportersLoop(w, k) ==
    IF k > Len(w.teleporters) \/ w.err # "" THEN {w}
    ELSE UNION {UNION {TeleportersLoop(y, k + 1) :
                  y \in Drifted(Made(w, [x EXCEPT !.teleporters[k].last_spawn_time =
                                                     x.fab.last_spawn_time], k), k)}
                : x \in try_spawn_with_cooldown(w, Fab(w.teleporters[k]), SPAWN_SPAWNER,
                                                w.difficulty, TargetAgent, "None",
                                                NoIteration)}

try_spawning_spawners(w) ==
    IF Len(w.teleporters) = 0 THEN {w} ELSE TeleportersLoop(w, 1)

IsSpawner(w, id) == w.ent[id].kind = "Spawner"
IsEnemy(w, id) == w.ent[id].kind \in {"Enemy", "Longinus"}

\* a variant that keeps the views of the call before
Views_Cached(w) == w

Views(w) ==
    [w EXCEPT !.spawners = SelectSeq(w.hittables, LAMBDA id : IsSpawner(w, id)),
              !.enemies  = SelectSeq(w.hittables, LAMBDA id : IsEnemy(w, id))]

\* a variant that plans the Teleporters before raising the difficulty
SpawnLogic_PlanFirst(w, current_time) ==
    LET n  == select_spawners_positions(w)
        w1 == [w EXCEPT !.difficulty = w.difficulty + 1,
                        !.out_of_spawners = get_ticks(w),
                        !.teleporters = [i \in 1..n |->
                              Teleporter_init(w, TELEPORTER_COOLDOWN, current_time)]]
    IN  IF Len(w.spawners) = 0
        THEN try_spawning_spawners(IF Len(w.teleporters) = 0 THEN w1 ELSE w)
        ELSE {[w EXCEPT !.teleporters = <<>>]}

\* a variant that starts a respawn whenever no Spawner is left, pending
\* Teleporters or not
SpawnLogic_IgnorePending(w, current_time) ==
    LET w0 == [w EXCEPT !.difficulty = w.difficulty + 1,
                        !.out_of_spawners = get_ticks(w)]
        w1 == [w0 EXCEPT !.teleporters = [i \in 1..select_spawners_positions(w0) |->
                              Teleporter_init(w0, TELEPORTER_COOLDOWN, current_time)]]
    IN  IF Len(w.spawners) = 0
        THEN try_spawning_spawners(w1)
        ELSE {[w EXCEPT !.teleporters = <<>>]}

\* a variant that tries the Teleporters only in the update that creates them
SpawnLogic_NoRetry(w, current_time) ==
    LET w0 == [w EXCEPT !.difficulty = w.difficulty + 1,
                        !.out_of_spawners = get_ticks(w)]
        w1 == [w0 EXCEPT !.teleporters = [i \in 1..select_spawners_positions(w0) |->
                              Teleporter_init(w0, TELEPORTER_COOLDOWN, current_time)]]
    IN  IF Len(w.spawners) = 0
        THEN IF Len(w.teleporters) = 0 THEN try_spawning_spawners(w1) ELSE {w}
        ELSE {[w EXCEPT !.teleporters = <<>>]}

\* arena.py lines 239-252
SpawnLogic(w, current_time) ==
    LET w0 == [w EXCEPT !.difficulty = w.difficulty + 1,
                        !.out_of_spawners = get_ticks(w)]
        w1 == [w0 EXCEPT !.teleporters = [i \in 1..select_spawners_positions(w0) |->
                              Teleporter_init(w0, TELEPORTER_COOLDOWN, current_time)]]
    IN  IF Len(w.spawners) = 0
        THEN try_spawning_spawners(IF Len(w.teleporters) = 0 THEN w1 ELSE w)
        ELSE {[w EXCEPT !.teleporters = <<>>]}

\* the rest of update without the early return of lines 236-238
AfterLoops_NoSkip(w, current_time) ==
    IF w.err # "" THEN {w}
    ELSE LET w1 == Views(w)
             w2 == [w1 EXCEPT !.alive = ~out_of_health(w1.ent[AGENT])]
         IN  {IF x.err = "" THEN [x EXCEPT !.last_physic_frame = current_time] ELSE x
                : x \in SpawnLogic(w2, current_time)}

AfterLoops(w, current_time) ==
    IF w.err # "" THEN {w}
    ELSE LET w1 == Views(w)
             w2 == [w1 EXCEPT !.alive = ~out_of_health(w1.ent[AGENT])]
         IN  IF ~w2.alive THEN {w2}
             ELSE {IF x.err = "" THEN [x EXCEPT !.last_physic_frame = current_time] ELSE x
                     : x \in SpawnLogic(w2, current_time)}

update(w) ==
    LET current_time == get_ticks(w)
        dt == current_time - w.last_physic_frame
    IN  IF AGENT \notin DOMAIN w.ent THEN {Raise(w, "AttributeError")}
        ELSE UNION {
               UNION {AfterLoops(y, current_time)
                        : y \in HittablesLoop(x, x.hittables, 1, dt)}
               : x \in BulletsLoop(w, Len(w.bullets), 1, 0, dt)}

reset(w) ==
    LET w1 == [w EXCEPT !.hittables = <<>>, !.bullets = <<>>,
                        !.ent = <<>>, !.nextId = AGENT,
                        !.last_physic_frame = get_ticks(w)]
        w2 == [Player_init(w1) EXCEPT !.alive = TRUE, !.out_of_spawners = -999]
        w3 == [w2 EXCEPT !.teleporters = [i \in 1..select_spawners_positions(w2) |->
                              Teleporter_init(w2, 0, FABRICATOR_LAST)]]
    IN  {Views(x) : x \in try_spawning_spawners(w3)}

\* The Player primitives and Agent.do.  The facing angle (degrees) is carried
\* for the agent; the direction of a thrust or of a shot is geometry.
A_NONE == 0
A_SHOOT == 10
SPEEN_AND_VROOM == 0
BORING_4D_PAD == 1
ANTI_CLOCKWISE == -1
CLOCKWISE == 1
A_1_FORWARD == 1
A_1_LEFT == 2
A_1_RIGHT == 3
A_2_UP == 1
A_2_DOWN == 2
A_2_LEFT == 3
A_2_RIGHT == 4
ROTATION_SPEED == 15

shoot(w) == Bullet_init(w, AGENT, w.ent[AGENT].power)

activate_thrust(w) == [w EXCEPT !.ent[AGENT].accel = TRUE]

rotate(w, rotation_direction) ==
    [w EXCEPT !.ent[AGENT].angle = @ + ROTATION_SPEED * rotation_direction]

inertial_manipulator_up(w) == activate_thrust([w EXCEPT !.ent[AGENT].angle = 270])
inertial_manipulator_down(w) == activate_thrust([w EXCEPT !.ent[AGENT].angle = 90])
inertial_manipulator_left(w) == activate_thrust([w EXCEPT !.ent[AGENT].angle = 180])
inertial_manipulator_right(w) == activate_thrust([w EXCEPT !.ent[AGENT].angle = 0])

\* a variant whose second branch takes every style that is not SPEEN_AND_VROOM
StyleDispatch_Else(w, style, action) ==
    IF style = SPEEN_AND_VROOM
    THEN CASE action = A_1_FORWARD -> activate_thrust(w)
           [] action = A_1_LEFT    -> rotate(w, ANTI_CLOCKWISE)
           [] action = A_1_RIGHT   -> rotate(w, CLOCKWISE)
           [] OTHER                -> w
    ELSE CASE action = A_2_UP    -> inertial_manipulator_up(w)
           [] action = A_2_DOWN  -> inertial_manipulator_down(w)
           [] action = A_2_LEFT  -> inertial_manipulator_left(w)
           [] action = A_2_RIGHT -> inertial_manipulator_right(w)
           [] OTHER              -> w

\* lines 389-404
StyleDispatch(w, style, action) ==
    IF style = SPEEN_AND_VROOM
    THEN CASE action = A_1_FORWARD -> activate_thrust(w)
           [] action = A_1_LEFT    -> rotate(w, ANTI_CLOCKWISE)
           [] action = A_1_RIGHT   -> rotate(w, CLOCKWISE)
           [] OTHER                -> w
    ELSE IF style = BORING_4D_PAD
    THEN CASE action = A_2_UP    -> inertial_manipulator_up(w)
           [] action = A_2_DOWN  -> inertial_manipulator_down(w)
           [] action = A_2_LEFT  -> inertial_manipulator_left(w)
           [] action = A_2_RIGHT -> inertial_manipulator_right(w)
           [] OTHER              -> w
    ELSE w

do(w, style, action) ==
    IF action = A_NONE THEN w
    ELSE StyleDispatch(IF action = A_SHOOT THEN shoot(w) ELSE w, style, action)

----------------------------------------------------------------------------
(* The state machine *)

\* objects no list refers to any more are dropped from the heap
\* i_frames_start is read only while invincible is set and is overwritten when
\* it is set, so the value left behind by a cleared invincibility is dropped
Prune(w) ==
    LET keep == ({AGENT} \cap DOMAIN w.ent) \cup {w.hittables[i] : i \in 1..Len(w.hittables)}
    IN  [w EXCEPT !.ent = [i \in keep |->
                     IF w.ent[i].invincible THEN w.ent[i]
                     ELSE [w.ent[i] EXCEPT !.i_frames_start = -9999]]]

SetWorld(w0) ==
    LET w == Prune(w0)
    IN  /\ ent' = w.ent
        /\ hittables' = w.hittables
        /\ bullets' = w.bullets
        /\ teleporters' = w.teleporters
        /\ spawners' = w.spawners
        /\ enemies' = w.enemies
        /\ difficulty' = w.difficulty
        /\ alive' = w.alive
        /\ out_of_spawners' = w.out_of_spawners
        /\ last_physic_frame' = w.last_physic_frame
        /\ now' = w.now
        /\ nextId' = w.nextId
        /\ fabs' = w.fabs
        /\ err' = w.err

\* the result slot of a rect_sweep call that has not been made
NotCalled == -1

Called(op, arg, ret) == [op |-> op, arg |-> arg, ret |-> ret]

ConstructedEnv ==
    /\ ent = <<>>
    /\ hittables = <<>>
    /\ bullets = <<>>
    /\ teleporters = <<>>
    /\ spawners = <<>>
    /\ enemies = <<>>
    /\ difficulty \in InitDifficulties
    /\ alive = TRUE
    /\ out_of_spawners = -999
    /\ last_physic_frame = now
    /\ nextId = AGENT
    /\ fabs = <<[spawn_cooldown |-> FABRICATOR_COOLDOWN, last_spawn_time |-> FABRICATOR_LAST],
                [spawn_cooldown |-> TELEPORTER_COOLDOWN, last_spawn_time |-> FABRICATOR_LAST]>>
    /\ err = ""

Constructed == ConstructedEnv /\ call = Called("init", <<>>, "None")

\* the arguments of a rect_sweep call about to be made
InitSweep ==
    /\ now = 0
    /\ ConstructedEnv
    /\ \E vel \in SweepVels, n \in 0..MaxObstacles :
         \E obstacles \in [1..n -> SweepObstacles] :
            call = Called("rect_sweep_args", <<SweepRect, vel, obstacles>>, NotCalled)

\* the arguments of two heal calls about to be made: the same amount for a
\* player at full health with the smaller and with the larger max_health
InitHeal ==
    /\ now = 0
    /\ ConstructedEnv
    /\ \E amount \in HealAmounts, lo \in HealMaxHealths, hi \in HealMaxHealths :
         /\ lo < hi
         /\ call = Called("heal_args", <<amount, lo, hi>>, <<>>)

Init == now = 0 /\ Constructed

\* an arena constructed when the clock already shows a later time
InitKill == now = MaxTime - KillHorizon /\ Constructed

InitCalls == now = MaxTime - CallHorizon /\ Constructed

InitEpisodes == now = MaxTime - EpisodeHorizon /\ Constructed

InitLive == now = MaxTime - LiveHorizon /\ Constructed

InitBlast == now = MaxTime - BlastHorizon /\ Constructed

InitDecay == now = MaxTime - DecayHorizon /\ Constructed

\* the clock as the handler reads it: d ms have passed since the last handler
Elapse(w, d) == [w EXCEPT !.now = w.now + d]

Reset ==
    /\ err = ""
    /\ AGENT \in DOMAIN ent => ~alive
    /\ \E d \in ClockSteps :
         /\ now + d <= MaxTime
         /\ \E w \in reset(Elapse(World, d)) : SetWorld(w)
    /\ call' = Called("reset", <<>>, "None")

\* the callers stop stepping an episode once alive is false (arenaGameTest.py
\* line 105, test_render.py line 42) and start the next one with reset
UpdateAfter(steps) ==
    /\ err = ""
    /\ alive
    /\ \E d \in steps :
         /\ now + d <= MaxTime
         /\ \E w \in update(Elapse(World, d)) :
              /\ SetWorld(w)
              /\ call' = Called("update", <<w.left>>, "None")

Update == UpdateAfter(ClockSteps)

\* an update that is watched: what it did on the way is kept with the call
Watched(w) == [w EXCEPT !.trace = TRUE]

UpdateWatched(steps) ==
    /\ err = ""
    /\ alive
    /\ \E d \in steps :
         /\ now + d <= MaxTime
         /\ \E w \in update(Watched(Elapse(World, d))) :
              /\ SetWorld(w)
              /\ call' = Called("update", <<w.left, w.log>>, "None")

\* a watched update during which the clock keeps running
Drifting(w) == [w EXCEPT !.drift = TRUE]

UpdateDrifting(steps) ==
    /\ err = ""
    /\ alive
    /\ \E d \in steps :
         /\ now + d <= MaxTime
         /\ \E w \in update(Drifting(Watched(Elapse(World, d)))) :
              /\ SetWorld(w)
              /\ call' = Called("update", <<w.left, w.log>>, "None")

ClockAdvance ==
    /\ err = ""
    /\ \E d \in ClockSteps :
         /\ now + d <= MaxTime
         /\ now' = now + d
    /\ call' = Called("tick", <<>>, "None")
    /\ UNCHANGED <<ent, hittables, bullets, teleporters, spawners, enemies, difficulty,
                   alive, out_of_spawners, last_physic_frame, nextId, fabs, err>>

DoInputs == {<<SPEEN_AND_VROOM, A_SHOOT>>, <<SPEEN_AND_VROOM, 1>>, <<SPEEN_AND_VROOM, A_NONE>>}

\* Agent.do called with one of the given <<style, action>> pairs
DoWith(inputs) ==
    /\ err = ""
    /\ alive
    /\ AGENT \in DOMAIN ent
    /\ \E in \in inputs :
         /\ in[2] = A_SHOOT => Len(bullets) < MaxBullets
         /\ do(World, in[1], in[2]).ent[AGENT].angle \in (-MaxTurn)..(270 + MaxTurn)
         /\ SetWorld(do(World, in[1], in[2]))
         /\ call' = Called("do", in, "None")

Do == DoWith(DoInputs)

\* every style, the two of the program and an unknown one, with every action
\* id up to one past A_SHOOT
AllDoInputs == {SPEEN_AND_VROOM, BORING_4D_PAD, UnknownStyle} \X (0..(A_SHOOT + 1))

\* a direct call of Fabricator.try_spawn_with_cooldown on a stand-alone Fabricator
CallTrySpawnAt(whats, types, difficulties, iterations) ==
    /\ err = ""
    /\ AGENT \in DOMAIN ent
    /\ Len(hittables) < MaxHittables
    /\ \E i \in 1..Len(fabs), what \in whats, d \in difficulties,
          it \in iterations :
       \E t \in IF what = SPAWN_SPAWNER THEN {"None"} ELSE types :
         \E w \in try_spawn_with_cooldown(World, fabs[i], what, d, TargetAgent, t, it) :
            /\ SetWorld([w EXCEPT !.fabs[i] = w.fab])
            /\ call' = Called("try_spawn", <<i, what, t>>, w.ret)

CallTrySpawnOf(whats, types, difficulties) ==
    CallTrySpawnAt(whats, types, difficulties, {NoIteration})

CallTrySpawn == CallTrySpawnOf(BOOLEAN, CallTypes, CallDifficulties)

\* a direct call of Hittable.take_damage
CallTakeDamageBy(kinds, amounts) ==
    /\ err = ""
    /\ \E i \in 1..Len(hittables), amount \in amounts :
         /\ ent[hittables[i]].kind \in kinds
         /\ SetWorld(take_damage(World, hittables[i], amount))
         /\ call' = Called("take_damage", <<hittables[i], amount>>, "None")

CallTakeDamage(kinds) == CallTakeDamageBy(kinds, DamageAmounts)

\* a player at full health with the given max_health
PlayerAt(w, max_health) ==
    [Player_init(w) EXCEPT !.ent[AGENT].health = max_health,
                           !.ent[AGENT].max_health = max_health]

\* the max_health increment heal(amount) gives that player
HealGain(w, max_health, amount) ==
    heal(PlayerAt(w, max_health), amount).ent[AGENT].max_health - max_health

\* direct calls of Player.heal on the two players
CallHeal ==
    /\ err = ""
    /\ call.op = "heal_args"
    /\ call' = Called("heal", call.arg,
                      <<HealGain(World, call.arg[2], call.arg[1]),
                        HealGain(World, call.arg[3], call.arg[1])>>)
    /\ UNCHANGED <<ent, hittables, bullets, teleporters, spawners, enemies, difficulty,
                   alive, out_of_spawners, last_physic_frame, now, nextId, fabs, err>>

\* a direct call of rect_sweep
CallRectSweep ==
    /\ err = ""
    /\ call.op = "rect_sweep_args"
    /\ call' = Called("rect_sweep", call.arg,
                      rect_sweep(call.arg[1], call.arg[2], call.arg[3]))
    /\ UNCHANGED <<ent, hittables, bullets, teleporters, spawners, enemies, difficulty,
                   alive, out_of_spawners, last_physic_frame, now, nextId, fabs, err>>

Next == Reset \/ Update \/ Do

Spec == Init /\ [][Next]_vars

Kinds == {"Agent", "Spawner", "Enemy", "Husk"}

\* the environment driven together with direct calls on two Fabricators
NextCalls == Reset \/ Update \/ CallTrySpawn

SpecCalls == InitCalls /\ [][NextCalls]_vars

\* the environment driven together with direct hits on any of its hittables
NextDamage == Reset \/ Update \/ ClockAdvance \/ CallTakeDamage(Kinds)

SpecDamage == InitCalls /\ [][NextDamage]_vars

\* the environment with direct hits on its Spawners
NextKill == Reset \/ Update \/ CallTakeDamage({"Spawner"})

SpecKill == InitKill /\ [][NextKill]_vars

\* episodes that end with the player's death and are followed by a reset
NextEpisodes == Reset \/ Update \/ CallTakeDamage({"Agent", "Spawner"})

SpecEpisodes == InitEpisodes /\ [][NextEpisodes]_vars


\* an episode whose caller keeps stepping it: update is called again and again
\* while the player is alive (ArenaEnv.step, arena.py line 281)
\* and every call reads a later clock
NextLive ==
    Reset \/ UpdateAfter(LiveSteps) \/ CallTakeDamageBy({"Spawner"}, {LethalDamage})

\* update can be called: it returns at least one world whenever it is called
UpdateEnabledAfter(steps) == err = "" /\ alive /\ \E d \in steps : now + d <= MaxTime

UpdateEnabled == UpdateEnabledAfter(LiveSteps)

\* the steps in which update was called at a later clock, told by what they
\* leave behind
UpdateCalledAfter(steps) ==
    /\ UpdateEnabledAfter(steps)
    /\ \E d \in steps : now + d <= MaxTime /\ now' = now + d
    /\ \E gone \in SUBSET {hittables[i] : i \in 1..Len(hittables)} :
          call' = Called("update", <<gone>>, "None")

UpdateCalled == UpdateCalledAfter(LiveSteps)

SpecLive == InitLive /\ [][NextLive]_vars /\ WF_<<now, call>>(UpdateCalled)

\* an episode stepped at any frame rate: a frame may come a few milliseconds
\* after the last one (ArenaEnv.step, arena.py line 281, sets no frame time).
\* The Spawner is hit right after reset.
NextDecay ==
    \/ Reset
    \/ UpdateAfter(DecaySteps)
    \/ (call.op = "reset" /\ CallTakeDamageBy({"Spawner"}, {LethalDamage}))

DecayCalled == UpdateCalledAfter(DecaySteps)

SpecDecay == InitDecay /\ [][NextDecay]_vars /\ WF_<<now, call>>(DecayCalled)

\* explosive rammers placed by direct Fabricator calls, with updates that come
\* several times within the life of an Explosion
NextBlast ==
    \/ Reset
    \/ UpdateWatched(BlastSteps)
    \/ (/\ Len(hittables) < BlastHittables
        /\ CallTrySpawnOf({SPAWN_ENEMY}, {"EXPLOSIVE_RAMMER"}, CallDifficulties))

SpecBlast == InitBlast /\ [][NextBlast]_vars

\* SPAWNCEPTIONs constructed with an iteration, as Enemy.achieve_goal
\* constructs them, by direct Fabricator calls
NextNest ==
    \/ Reset
    \/ UpdateAfter(NestSteps)
    \/ (/\ Len(hittables) < BlastHittables
        /\ CallTrySpawnAt({SPAWN_ENEMY}, {"SPAWNCEPTION"}, NestDifficulties, NestIterations))

SpecNest == InitEpisodes /\ [][NextNest]_vars

\* the environment with watched updates and lethal hits on its Spawners, over
\* a time in which a Spawner's cooldown runs out
NextWatch ==
    \/ Reset
    \/ UpdateWatched(WatchSteps)
    \/ CallTakeDamageBy({"Spawner"}, {LethalDamage})

SpecWatch == Init /\ [][NextWatch]_vars

\* respawn cycles with the clock running inside a tick; a Spawner is hit once
\* the Teleporter list has been cleared
NextDrift ==
    \/ Reset
    \/ UpdateDrifting(DriftSteps)
    \/ (Len(teleporters) = 0 /\ CallTakeDamageBy({"Spawner"}, {LethalDamage}))

SpecDrift == Init /\ [][NextDrift]_vars

\* enemies of difficulty 1, whose death is worth a reward, placed by direct
\* Fabricator calls and hit directly
NextReward ==
    \/ Reset
    \/ UpdateWatched(RewardSteps)
    \/ (/\ Len(hittables) < BlastHittables
        /\ CallTrySpawnOf({SPAWN_ENEMY}, RewardTypes, RewardDifficulties))
    \/ CallTakeDamageBy({"Enemy"}, {LethalDamage})

SpecReward == InitBlast /\ [][NextReward]_vars

\* Agent.do with every style and action id, between resets
NextDo == Reset \/ DoWith(AllDoInputs)

SpecDo == InitCalls /\ [][NextDo]_vars

\* Player.heal on its own
NextHeal == CallHeal

SpecHeal == InitHeal /\ [][NextHeal]_vars

\* rect_sweep on its own
NextSweep == CallRectSweep

SpecSweep == InitSweep /\ [][NextSweep]_vars

----------------------------------------------------------------------------
(* Fabricator.try_spawn_with_cooldown called directly *)

\* the step just taken is a direct call of try_spawn_with_cooldown
IsTrySpawn == call'.op = "try_spawn"

\* the Fabricator the call is made on, as it is before the call
CalledFab == fabs[call'.arg[1]]

\* the cooldown has elapsed when the call is made
CooldownDone == now - CalledFab.last_spawn_time >= CalledFab.spawn_cooldown

BossRequested == call'.arg[2] = SPAWN_ENEMY /\ call'.arg[3] = "DIFFICULTY_LONGINUS"

\* C1: a call made less than spawn_cooldown ms after the Fabricator's last
\* accepted call creates no entity; every call made at least spawn_cooldown ms
\* after it adds exactly one new Spawner or Enemy to hittables.
C1_CooldownGating ==
    [][IsTrySpawn =>
         IF ~CooldownDone
         THEN hittables' = hittables
         ELSE /\ Len(hittables') = Len(hittables) + 1
              /\ SubSeq(hittables', 1, Len(hittables)) = hittables
              /\ ent'[hittables'[Len(hittables')]].kind \in {"Spawner", "Enemy", "Longinus"}]_vars

C3_ReturnValue ==
    [][IsTrySpawn =>
         call'.ret = IF CooldownDone /\ BossRequested THEN "True" ELSE "False"]_vars

----------------------------------------------------------------------------
(* Health and membership *)

\* the objects of env.hittables, and the agent
Live == {hittables[i] : i \in 1..Len(hittables)} \cup (DOMAIN ent \cap {AGENT})

\* C5: every Hittable (Player, Enemy, Spawner, Husk) has
\* 0 <= health <= max_health, or the negative-infinity sentinel of explode().
C5_HealthRange ==
    \A id \in Live :
        \/ ent[id].health = NegInf
        \/ 0 <= ent[id].health /\ ent[id].health <= ent[id].max_health

\* C6: after reset and after each update, if the player is alive (env.alive)
\* the agent is in hittables, exactly once.
C6_AlivePlayerInHittables ==
    (call.op \in {"reset", "update"} /\ err = "" /\ alive) =>
        Cardinality({i \in 1..Len(hittables) : hittables[i] = AGENT}) = 1

----------------------------------------------------------------------------
(* Invincibility *)

IsTakeDamage == call'.op = "take_damage"

\* the object the direct take_damage call is made on
Hit == call'.arg[1]

\* C7: a take_damage call on an invincible Hittable leaves its health
\* unchanged; a call that changes health makes the Hittable invincible and
\* never leaves health negative; invincibility ends only in an update made
\* more than i_time ms after it began.
C7_InvincibilityIdempotence ==
    [][/\ IsTakeDamage =>
            /\ ent[Hit].invincible => ent'[Hit] = ent[Hit]
            /\ ent'[Hit].health # ent[Hit].health => ent'[Hit].invincible
            /\ ent'[Hit].health >= 0
       /\ call'.op # "reset" =>
            \A id \in DOMAIN ent \cap DOMAIN ent' :
                ent[id].invincible /\ ~ent'[id].invincible =>
                    /\ call'.op = "update"
                    /\ now' - ent[id].i_frames_start > i_time(ent[id])]_vars

\* C7 witness: a take_damage call has just been made on a Hittable that an
\* earlier call had damaged and that was still invincible; its health is
\* still what the earlier call left.
C7_HitWhileInvincible ==
    /\ call.op = "take_damage"
    /\ ent[call.arg[1]].invincible
    /\ ent[call.arg[1]].i_frames_start < now
    /\ ent[call.arg[1]].health > 0
    /\ ent[call.arg[1]].health < ent[call.arg[1]].max_health
    /\ call.arg[2] < ent[call.arg[1]].health

----------------------------------------------------------------------------
(* Destruction *)

Ids(h) == {h[i] : i \in 1..Len(h)}

\* the Enemies and Spawners this step removed from hittables
Removed == {id \in Ids(hittables) \ Ids(hittables') : ent[id].kind \notin {"Agent", "Husk"}}

\* the Husks this step added to hittables
NewHusks == {id \in Ids(hittables') \ Ids(hittables) : ent'[id].kind = "Husk"}

\* C8: an entity destroyed in an update leaves exactly one Husk, also when
\* destroy() runs on it more than once in that update.
C8_OneHuskPerDestroyed ==
    [][call'.op = "update" /\ err' = "" =>
         Cardinality(NewHusks) = Cardinality(Removed)]_vars

----------------------------------------------------------------------------
(* Difficulty progression *)

HasSpawner == \E i \in 1..Len(hittables) : ent[hittables[i]].kind = "Spawner"

IsUpdate == call'.op = "update" /\ err' = ""

\* C9 as stated: difficulty rises by 1 in every update in which the player is
\* alive and the world passes from at least one Spawner to none, and changes
\* in no other update.
C9_DifficultyProgression ==
    [][IsUpdate =>
         difficulty' = IF alive' /\ HasSpawner /\ ~HasSpawner'
                       THEN difficulty + 1 ELSE difficulty]_vars

\* C9 amended: difficulty rises by 1 in every update in which the player is
\* alive, the world passes from at least one Spawner to none and no
\* Teleporter is pending when the update starts; it changes in no other update.
C9_DifficultyProgressionNoPending ==
    [][IsUpdate =>
         difficulty' = IF alive' /\ HasSpawner /\ ~HasSpawner' /\ teleporters = <<>>
                       THEN difficulty + 1 ELSE difficulty]_vars

\* C9 witness: an update has raised the difficulty and planned the respawn.
C9_DifficultyRaised ==
    /\ call.op = "update" /\ alive /\ ~HasSpawner
    /\ difficulty = 1 /\ out_of_spawners = now /\ teleporters # <<>>

\* C10 as stated: an update that starts a respawn creates
\* (difficulty at its start) + 1 Teleporters and raises difficulty by 1.
C10_TeleportersStartDifficulty ==
    [][IsUpdate /\ alive' /\ ~HasSpawner' /\ teleporters = <<>> =>
         /\ Len(teleporters') = difficulty + 1
         /\ difficulty' = difficulty + 1]_vars

\* C10 amended: an update that starts a respawn raises difficulty by 1 and
\* creates (difficulty at its end) + 1 Teleporters, one more than stated.
C10_TeleportersEndDifficulty ==
    [][IsUpdate /\ alive' /\ ~HasSpawner' /\ teleporters = <<>> =>
         /\ Len(teleporters') = difficulty' + 1
         /\ difficulty' = difficulty + 1]_vars

\* C10 witness: the respawn after the first cleared level has been planned
\* with its Teleporters.
C10_RespawnPlanned ==
    /\ call.op = "update" /\ alive /\ ~HasSpawner
    /\ out_of_spawners = now /\ Len(teleporters) = difficulty + 1 /\ difficulty > 0

----------------------------------------------------------------------------
(* reset *)

\* C11: after reset(), whatever difficulty the run before had reached, every
\* Spawner in hittables was created with difficulty 0, hittables holds only
\* the new player and those Spawners, and bullets is empty.
C11_ResetReseedsAtZero ==
    (call.op = "reset" /\ err = "") =>
        /\ \A i \in 1..Len(hittables) :
              /\ ent[hittables[i]].kind \in {"Agent", "Spawner"}
              /\ ent[hittables[i]].kind = "Spawner" => ent[hittables[i]].difficulty = 0
        /\ Cardinality({i \in 1..Len(hittables) : hittables[i] = AGENT}) = 1
        /\ bullets = <<>>

\* the Spawners and the Enemies of hittables
SpawnersIn(h) == {i \in 1..Len(h) : ent[h[i]].kind = "Spawner"}
EnemiesIn(h) == {i \in 1..Len(h) : ent[h[i]].kind \in {"Enemy", "Longinus"}}

\* C12: reset() of a world whose difficulty is the 0 it was constructed with
\* yields exactly one Spawner and no Enemy in hittables, the player at the
\* arena centre (400, 400) with health 100 and max_health 100, and alive true.
C12_InitialState ==
    (call.op = "reset" /\ err = "" /\ difficulty = 0) =>
        /\ Cardinality(SpawnersIn(hittables)) = 1
        /\ EnemiesIn(hittables) = {}
        /\ ent[AGENT].position = <<400, 400>>
        /\ ent[AGENT].health = 100 /\ ent[AGENT].max_health = 100
        /\ alive

\* C12 witness: a world constructed with difficulty 0 has been reset after an
\* episode that ended with the player's death.
C12_ResetAtDifficultyZero ==
    /\ call.op = "reset" /\ err = "" /\ difficulty = 0
    /\ nextId = 2 /\ now >= MaxTime - EpisodeHorizon + 750

----------------------------------------------------------------------------
(* The views env.spawners and env.enemies *)

IsViewCall == call'.op \in {"reset", "update"} /\ err' = ""

\* the Spawners and Enemies of hittables after the step, in list order
SpawnersNow == SelectSeq(hittables', LAMBDA id : ent'[id].kind = "Spawner")
EnemiesNow == SelectSeq(hittables', LAMBDA id : ent'[id].kind \in {"Enemy", "Longinus"})

\* the objects the step has constructed: update numbers them from nextId on,
\* reset constructs all of them
Fresh(id) == call'.op = "reset" \/ id >= nextId

\* C13: after reset and after every update, an update that returns early
\* because the player is dead included, every element of the spawners view
\* and of the enemies view is in hittables, and both views have been
\* recomputed from hittables in that call: enemies is the list of the Enemies
\* of hittables, spawners the list of its Spawners up to those the
\* Teleporters of this call have added after the views were taken.
C13_ViewsRecomputed ==
    [][IsViewCall =>
         /\ Ids(spawners') \subseteq Ids(hittables')
         /\ Ids(enemies') \subseteq Ids(hittables')
         /\ enemies' = EnemiesNow
         /\ Len(spawners') <= Len(SpawnersNow)
         /\ spawners' = SubSeq(SpawnersNow, 1, Len(spawners'))
         /\ \A i \in (Len(spawners') + 1)..Len(SpawnersNow) : Fresh(SpawnersNow[i])
         /\ call'.op = "reset" => spawners' = SpawnersNow]_vars

\* C13 witness: an update has returned early because the player is dead, and
\* it has taken an Enemy that was in the enemies view out of hittables and
\* out of the view, which still holds another Enemy.
C13_EarlyReturnWithViews ==
    /\ call.op = "update" /\ err = "" /\ ~alive
    /\ enemies # <<>>
    /\ \E i \in 1..Len(hittables) : ent[hittables[i]].kind = "Husk" /\ ent[hittables[i]].type # "None"

----------------------------------------------------------------------------
(* Leaving the arena *)

\* the objects the update just made has found out of bounds
LeftArena == call'.arg[1]

\* the Explosions the step has added to bullets
NewExplosions ==
    {i \in 1..Len(bullets') : bullets'[i].kind = "Explosion" /\ bullets'[i].start_time = now'}

\* C14: a non-Husk Hittable that is out of bounds after integration is
\* removed from hittables in that update; an EXPLOSIVE_RAMMER adds an
\* Explosion to bullets; the Player's health becomes 0, so that alive is
\* false at the end of the update.
C14_BoundsRemoval ==
    [][IsUpdate =>
         /\ \A id \in LeftArena : id \notin Ids(hittables')
         /\ Cardinality(NewExplosions) >= Cardinality({id \in LeftArena : IsExplosive(ent[id])})
         /\ AGENT \in LeftArena => ent'[AGENT].health = 0 /\ ~alive']_vars

----------------------------------------------------------------------------
(* rect_sweep called directly *)

IsSweep == call'.op = "rect_sweep"

SweptRect == call'.arg[1]
SweptVel == call'.arg[2]
Obstacles == call'.arg[3]

\* the obstacles the sweep considers
Candidates == {i \in 1..Len(Obstacles) : NotFriendly(Obstacles[i])}

\* the candidates that overlap the rectangle at its start position
Overlapping == {i \in Candidates : colliderect(SweptRect, Obstacles[i].hitbox)}

\* C15: whenever a candidate that is not excluded and has a hitbox overlaps
\* the moving rectangle at its start position, rect_sweep returns an
\* overlapping candidate, whatever the list order and the entry times of the
\* other candidates.
C15_ImmediateOverlapWins ==
    [][IsSweep /\ Overlapping # {} => call'.ret \in Overlapping]_vars

\* the candidates with an entry time: entry <= exit and 0 <= entry <= 1
Entering ==
    {i \in Candidates :
        /\ ~AxisMisses(SweptVel[1], SweptRect.left, right(SweptRect),
                       Obstacles[i].hitbox.left, right(Obstacles[i].hitbox))
        /\ ~AxisMisses(SweptVel[2], SweptRect.top, bottom(SweptRect),
                       Obstacles[i].hitbox.top, bottom(Obstacles[i].hitbox))
        /\ ~Less(t_exit(SweptRect, SweptVel, Obstacles[i].hitbox),
                 t_entry(SweptRect, SweptVel, Obstacles[i].hitbox))
        /\ ~Less(t_entry(SweptRect, SweptVel, Obstacles[i].hitbox), <<0, 1>>)
        /\ ~Less(<<1, 1>>, t_entry(SweptRect, SweptVel, Obstacles[i].hitbox))}

\* C16: when no candidate overlaps at the start, rect_sweep returns a
\* candidate whose entry time is the smallest among those with
\* entry <= exit and 0 <= entry <= 1, the bound 1 included, and returns None
\* exactly when no candidate has such an entry time.
C16_EarliestHit ==
    [][IsSweep /\ Overlapping = {} =>
         IF Entering = {} THEN call'.ret = 0
         ELSE /\ call'.ret \in Entering
              /\ \A j \in Entering :
                    ~Less(t_entry(SweptRect, SweptVel, Obstacles[j].hitbox),
                          t_entry(SweptRect, SweptVel, Obstacles[call'.ret].hitbox))]_vars

\* the call just made, as a state
SweepDone == call.op = "rect_sweep"
DoneCandidates == {i \in 1..Len(call.arg[3]) : NotFriendly(call.arg[3][i])}
DoneOverlapping == {i \in DoneCandidates : colliderect(call.arg[1], call.arg[3][i].hitbox)}

\* C15 witness: the first obstacle overlaps the rectangle at its start, the
\* second does not and is entered during the sweep, and the first is returned.
C15_OverlapBeforeEntering ==
    /\ SweepDone /\ Len(call.arg[3]) = 2
    /\ DoneOverlapping = {1} /\ DoneCandidates = {1, 2}
    /\ ~NoCollision(call.arg[1], call.arg[2], call.arg[3][2].hitbox)
    /\ call.ret = 1

----------------------------------------------------------------------------
(* Player.heal called directly *)

\* C17 as stated: for a fixed positive overheal amount the max_health
\* increment of heal() is strictly smaller for the larger max_health than for
\* the smaller one.
C17_StrictlyDiminishing ==
    call.op = "heal" => call.ret[2] < call.ret[1]

\* C17 amended: for a fixed positive overheal amount the max_health
\* increment of heal() is never larger for the larger max_health than for the
\* smaller one.
C17_NeverLarger ==
    call.op = "heal" => call.ret[2] <= call.ret[1]

\* C17 witness: heal has given the player with the larger max_health a
\* smaller increment, and both increments are positive.
C17_SmallerGain ==
    call.op = "heal" /\ 0 < call.ret[2] /\ call.ret[2] < call.ret[1]

----------------------------------------------------------------------------
(* Agent.do *)

IsDo == call'.op = "do"
Style == call'.arg[1]
Action == call'.arg[2]

\* ALL_ACTIONS: the enumeration of each control style
SPEEN_VROOM_ALL_ACTIONS == {A_NONE, A_1_FORWARD, A_1_LEFT, A_1_RIGHT, A_SHOOT}
BORING_4D_PAD_ALL_ACTIONS == {A_NONE, A_2_UP, A_2_DOWN, A_2_LEFT, A_2_RIGHT, A_SHOOT}

\* the calls that are to be ignored
Ignored ==
    \/ Action = A_NONE
    \/ Style = SPEEN_AND_VROOM /\ Action \notin SPEEN_VROOM_ALL_ACTIONS
    \/ Style = BORING_4D_PAD /\ Action \notin BORING_4D_PAD_ALL_ACTIONS
    \/ Style \notin {SPEEN_AND_VROOM, BORING_4D_PAD} /\ Action # A_SHOOT

\* what the step has done to the agent and to bullets, as one Player primitive
DidNothing == ent' = ent /\ bullets' = bullets
DidShoot ==
    /\ ent' = ent
    /\ bullets' = Append(bullets, [kind |-> "Bullet", owner |-> AGENT,
                                   damage |-> ent[AGENT].power, start_time |-> 0,
                                   struck |-> {}])
DidThrust == ent' = [ent EXCEPT ![AGENT].accel = TRUE] /\ bullets' = bullets
DidRotate(dir) ==
    ent' = [ent EXCEPT ![AGENT].angle = @ + 15 * dir] /\ bullets' = bullets
DidManipulate(angle) ==
    ent' = [ent EXCEPT ![AGENT].angle = angle, ![AGENT].accel = TRUE] /\ bullets' = bullets

\* C18: Agent.do with A_NONE, with an action id that is not in the control
\* style's enumeration, or with an unknown style and a non-shoot action
\* changes nothing and raises no error; every other call performs exactly
\* one Player primitive: rotate, thrust, one cardinal manipulator, or shoot.
C18_ActionDispatch ==
    [][IsDo =>
         /\ err' = ""
         /\ UNCHANGED <<hittables, teleporters, spawners, enemies, difficulty, alive,
                        out_of_spawners, last_physic_frame, now, nextId, fabs>>
         /\ IF Ignored THEN DidNothing
            ELSE IF Action = A_SHOOT THEN DidShoot
            ELSE IF Style = SPEEN_AND_VROOM
            THEN CASE Action = 1 -> DidThrust
                   [] Action = 2 -> DidRotate(-1)
                   [] Action = 3 -> DidRotate(1)
            ELSE CASE Action = 1 -> DidManipulate(270)
                   [] Action = 2 -> DidManipulate(90)
                   [] Action = 3 -> DidManipulate(180)
                   [] Action = 4 -> DidManipulate(0)]_vars

\* C18 witness: a call with an action id outside the style's enumeration
\* (4 under SPEEN_AND_VROOM) has been ignored by an agent that had turned,
\* thrust and shot before.
C18_IgnoredAfterActing ==
    /\ call.op = "do" /\ call.arg = <<SPEEN_AND_VROOM, 4>>
    /\ ent[AGENT].angle = 15 /\ ent[AGENT].accel /\ Len(bullets) = 1

----------------------------------------------------------------------------
(* ArenaEnv.encode_state *)

NO_TARGET_POS == 10000

\* the position reported when no target is found
Sentinel == <<NO_TARGET_POS, NO_TARGET_POS>>

\* the position of a target: positions are not carried, the target is named
PositionOf(x) == <<x>>

\* lines 181-206: the closest of a collection; which one is closest is
\* geometry, and every object of the arena is nearer than 10000
Closest(S) == IF S = {} THEN {Sentinel} ELSE {PositionOf(x) : x \in S}

\* the observations encode_state can return in this world: the targets are
\* looked for in the enemies view, the spawners view and bullets
encode_state(w) ==
    [enemy   : Closest(Ids(w.enemies)),
     spawner : Closest(Ids(w.spawners)),
     bullet  : Closest({i \in 1..Len(w.bullets) : w.bullets[i].owner # AGENT}),
     health  : {w.ent[AGENT].health},
     max_health : {w.ent[AGENT].max_health},
     power   : {w.ent[AGENT].power},
     difficulty : {w.difficulty}]

\* C19: after reset and after every update, encode_state reports the
\* nearest enemy, the nearest spawner and the nearest hostile bullet as the
\* sentinel 10000.0 exactly when hittables holds no Enemy, hittables holds no
\* Spawner, or bullets holds no Bullet that the agent does not own; when one
\* exists the position reported is that of one of them.
C19_ObservationSentinel ==
    (call.op \in {"reset", "update"} /\ err = "") =>
        \A o \in encode_state(World) :
            /\ o.enemy = Sentinel <=> EnemiesIn(hittables) = {}
            /\ o.spawner = Sentinel <=> SpawnersIn(hittables) = {}
            /\ o.bullet = Sentinel <=> \A i \in 1..Len(bullets) : bullets[i].owner = AGENT
            /\ o.enemy # Sentinel => \E i \in EnemiesIn(hittables) : o.enemy = <<hittables[i]>>
            /\ o.spawner # Sentinel => \E i \in SpawnersIn(hittables) : o.spawner = <<hittables[i]>>
            /\ o.bullet # Sentinel => o.bullet[1] \in 1..Len(bullets)

\* the longest time the clock may advance between two updates
MaxStep == CHOOSE d \in LiveSteps : \A e \in LiveSteps : e <= d

\* the time within which a respawn completes: one update to plan the
\* Teleporters, then their cooldown
RespawnDelay == MaxStep + TELEPORTER_COOLDOWN

\* an episode is running: reset has made a player and update has found it alive
Playing == AGENT \in DOMAIN ent /\ alive /\ err = ""

Pending == Len(teleporters) > 0

\* C20: as long as the player stays alive and update keeps being called with an
\* advancing clock, every state with no Spawner in hittables is followed by a
\* state with a Spawner in hittables (for states that leave the clock room for
\* the respawn before MaxTime), and between the calls of a running episode the
\* world is never left with no Spawner and no pending Teleporter
C20_RespawnLiveness ==
    /\ (Playing /\ ~HasSpawner /\ now + RespawnDelay <= MaxTime)
           ~> (HasSpawner \/ ~alive)
    /\ [](Playing => (HasSpawner \/ Pending))

\* C20: an update has respawned a Spawner of the raised difficulty once the
\* cooldown of the Teleporters planned by an earlier update had run out
C20_Respawned ==
    /\ call.op = "update" /\ Playing
    /\ HasSpawner /\ spawners = <<>>
    /\ difficulty = 1
    /\ now >= out_of_spawners + TELEPORTER_COOLDOWN
    /\ out_of_spawners + RespawnDelay <= MaxTime

----------------------------------------------------------------------------
(* The Spawner's lifetime *)

\* the Enemies the step has added to hittables
NewEnemies ==
    {id \in Ids(hittables') \ Ids(hittables) : ent'[id].kind \in {"Enemy", "Longinus"}}

\* the Spawners the step has taken out of hittables
RemovedSpawners == {id \in Removed : ent[id].kind = "Spawner"}

\* C21: an update in which a Spawner's Fabricator produces an Enemy removes
\* that Spawner from hittables and leaves a Husk for it.
C21_DestroyedOnSpawn ==
    [][IsUpdate /\ NewEnemies # {} =>
         /\ Cardinality(RemovedSpawners) >= Cardinality(NewEnemies)
         /\ Cardinality(NewHusks) >= Cardinality(NewEnemies)]_vars

----------------------------------------------------------------------------
(* What a watched update did on the way *)

\* the step just taken is a watched update that raised nothing
IsWatched == IsUpdate /\ Len(call'.arg) = 2

\* the events of the update just made
Events == {call'.arg[2][i] : i \in 1..Len(call'.arg[2])}

\* C22: an Explosion pushes and damages a Hittable in at most one of its
\* updates: no update of an Explosion strikes a target that an earlier update
\* of the same Explosion has struck.
C22_StruckOnce ==
    [][IsWatched => \A e \in Events : e.what = "blast" => ~e.flag]_vars

----------------------------------------------------------------------------
(* The decay of a Husk *)

\* the Husk with this id lies in the arena
HuskAt(id) == id \in Ids(hittables) /\ ent[id].kind = "Husk"

\* the Husks the step has taken out of hittables
RemovedHusks == {id \in Ids(hittables) \ Ids(hittables') : ent[id].kind = "Husk"}

\* C23: as long as update keeps being called with an advancing clock, whatever
\* the length of the ticks, every Husk in hittables is eventually removed (for
\* Husks that have DecayRoom left on the clock before MaxTime), and an update
\* that removes a Husk and no other entity puts no new Husk in its place
C23_HuskDecays ==
    /\ \A id \in 1..MaxHittables :
          (Playing /\ HuskAt(id) /\ now + DecayRoom <= MaxTime)
              ~> (~HuskAt(id) \/ ~alive)
    /\ [][IsUpdate /\ RemovedHusks # {} /\ Removed = {} => NewHusks = {}]_vars

----------------------------------------------------------------------------
(* The frame in which the player dies *)

\* the Spawners the step has added to hittables
NewSpawners == {id \in Ids(hittables') \ Ids(hittables) : ent'[id].kind = "Spawner"}

\* C24: an update whose entity updates leave the player dead runs no spawn
\* logic: difficulty, the Teleporter list and out_of_spawners are what they
\* were before the update, and no Spawner has been created
C24_DeadFrameNoSpawnLogic ==
    [][IsUpdate /\ ~alive' =>
         /\ difficulty' = difficulty
         /\ teleporters' = teleporters
         /\ out_of_spawners' = out_of_spawners
         /\ NewSpawners = {}]_vars

\* C24: an update has found the player dead while the Teleporters of the last
\* reset were still listed beside their Spawners, where the spawn logic of a
\* living player would have cleared the list
C24_DiedWithTeleporters ==
    /\ call.op = "update" /\ err = ""
    /\ ~alive
    /\ HasSpawner
    /\ Len(teleporters) > 0

----------------------------------------------------------------------------
(* The reward for a kill *)

\* the player's health or max_health is higher after the step
PlayerHealed ==
    \/ ent'[AGENT].health > ent[AGENT].health
    \/ ent'[AGENT].max_health > ent[AGENT].max_health

\* C25: an update heals the player (and adds to the score, in the same branch)
\* for an Enemy only if that Enemy's health was brought to zero by damage and
\* the player was within ten hitbox widths: no reward goes to an Enemy whose
\* health is minus infinity after its own explosion or still positive when it
\* leaves the arena, and the player's health rises in no update without a reward
C25_RewardOnlyForKill ==
    [][IsWatched =>
         /\ \A e \in Events : e.what = "reward" => e.health = 0 /\ e.flag
         /\ PlayerHealed => \E e \in Events : e.what \in {"reward", "spawner reward"}]_vars

\* C25: a watched update has rewarded the player for an Enemy killed nearby
\* and raised the player's max_health
C25_Rewarded ==
    /\ call.op = "update" /\ err = "" /\ Len(call.arg) = 2
    /\ \E i \in 1..Len(call.arg[2]) :
          call.arg[2][i].what = "reward" /\ call.arg[2][i].health = 0
    /\ ent[AGENT].max_health > PLAYER_HEALTH

----------------------------------------------------------------------------
(* The candidates rect_sweep leaves out *)

\* C26: rect_sweep returns None or an obstacle that is not in the exclusion
\* set and has a hitbox, and returns normally whatever obstacles of the other
\* two sorts are in the list.  For Bullet.update the exclusion set holds the
\* Bullet's owner and the obstacles without a hitbox are the Husks, so a
\* Bullet hits neither.
C26_ExcludedNeverReturned ==
    [][IsSweep =>
         \/ call'.ret = 0
         \/ /\ call'.ret \in 1..Len(Obstacles)
            /\ ~Obstacles[call'.ret].excepted
            /\ Obstacles[call'.ret].has_hitbox]_vars

\* C26: a sweep has returned None although an obstacle of the exclusion set
\* overlapped the rectangle at its start and an obstacle without a hitbox was
\* in the list as well
C26_OwnerAndHuskSkipped ==
    /\ SweepDone /\ Len(call.arg[3]) = 2
    /\ call.arg[3][1].excepted /\ call.arg[3][1].has_hitbox
    /\ colliderect(call.arg[1], call.arg[3][1].hitbox)
    /\ ~call.arg[3][2].has_hitbox
    /\ call.ret = 0

----------------------------------------------------------------------------
(* Nested SPAWNCEPTIONs *)

\* the SPAWNCEPTIONs in the arena
Spawnceptions ==
    {id \in Ids(hittables) : ent[id].kind = "Enemy" /\ ent[id].type = "SPAWNCEPTION"}

\* C27: constructing a SPAWNCEPTION with an iteration never fails, whatever
\* the difficulty, and no SPAWNCEPTION has an iteration above its
\* actual_max_iter
C27_NestingBounded ==
    /\ err # "ZeroDivisionError"
    /\ \A id \in Spawnceptions : ent[id].iteration <= ent[id].actual_max_iter

----------------------------------------------------------------------------
(* The rewards of one update *)

\* how many times the update just made has rewarded the player for this entity
Rewards(id) ==
    Cardinality({i \in 1..Len(call'.arg[2]) :
                    /\ call'.arg[2][i].what \in {"reward", "spawner reward"}
                    /\ call'.arg[2][i].id = id})

\* C28: an update that removes a Spawner or an Enemy whose health damage has
\* brought to zero heals the player and adds to the score once for it, not
\* twice: once for every such Spawner, at most once for every such Enemy
C28_RewardedOnce ==
    [][IsWatched =>
         \A id \in Removed :
            ent[id].health = 0 =>
               /\ Rewards(id) <= 1
               /\ ent[id].kind = "Spawner" => Rewards(id) = 1]_vars

\* C29: a Spawner that has been destroyed spawns nothing: no update makes an
\* Enemy through the Fabricator of a Spawner that is no longer in hittables
C29_DeadSpawnerSilent ==
    [][IsWatched => \A e \in Events : e.what = "spawn" => e.flag]_vars

----------------------------------------------------------------------------
(* The respawn cycle *)

\* C30: when an update clears the Teleporter list, every Teleporter in it that
\* was created for a world out of Spawners has made exactly one Spawner, also
\* when the clock moves on between the Teleporters' calls of one tick
C30_CycleComplete ==
    [][IsWatched /\ teleporters # <<>> /\ teleporters' = <<>> =>
         \A k \in 1..Len(teleporters) :
            teleporters[k].spawn_cooldown = TELEPORTER_COOLDOWN
               => teleporters[k].made = 1]_vars

====
